---------------------------- MODULE Spec2Model ----------------------------
(***************************************************************************)
(* The query layer of src/app.js: three read-only HTTP handlers over one   *)
(* SQLite store.  Every handler binds parameters taken from the query      *)
(* string, hands one SELECT to db.all, and answers from the callback:      *)
(* status 500 with the error message, or the rows.                         *)
(*                                                                         *)
(* Time is counted in minutes since 2024-01-01 00:00:00 UTC.  A TIMESTAMP  *)
(* column holds the text 'YYYY-MM-DD HH:MM:SS' (what CURRENT_TIMESTAMP and *)
(* datetime() produce); SQLite compares such texts bytewise, which is the  *)
(* order of the instants, so a timestamp is modelled by its minute number  *)
(* and the calendar operators below turn it into the fields of the text.   *)
(***************************************************************************)
EXTENDS Integers, Sequences, FiniteSets, TLC

(***************************************************************************)
(* SQL values.  NULL, a number and a text are different storage classes.   *)
(***************************************************************************)
SqlNull == [t |-> "null"]

SqlNum(n) == [t |-> "num", n |-> n]

SqlText(s) == [t |-> "text", s |-> s]

\* The text 'YYYY-MM-DD HH:MM:SS' of minute at.
SqlDatetime(at) == [t |-> "datetime", at |-> at]

\* a < b as a WHERE clause sees it, between operands without column
\* affinity: a comparison with NULL is NULL (the row is dropped), and a
\* number is less than any text whatever the text says, since no conversion
\* is applied.
SqlLess(a, b) ==
    CASE a.t = "null" \/ b.t = "null" -> FALSE
      [] a.t = "num" /\ b.t = "num" -> a.n < b.n
      [] a.t = "datetime" /\ b.t = "datetime" -> a.at < b.at
      [] a.t = "num" -> TRUE
      [] OTHER -> FALSE

\* A query-string key that the request does not carry: req.query.key is
\* undefined, and node-sqlite3 leaves an undefined parameter unbound (NULL).
Undefined == "<undefined>"

BindValue(v) == IF v = Undefined THEN SqlNull ELSE SqlText(v)

(***************************************************************************)
(* Calendar arithmetic of SQLite's date functions.                         *)
(***************************************************************************)
MinutesPerDay == 24 * 60

IsLeap(y) == (y % 4 = 0 /\ y % 100 # 0) \/ y % 400 = 0

DaysInYear(y) == IF IsLeap(y) THEN 366 ELSE 365

DaysInMonth(y, m) ==
    IF m = 2 THEN (IF IsLeap(y) THEN 29 ELSE 28)
    ELSE IF m \in {4, 6, 9, 11} THEN 30 ELSE 31

RECURSIVE DaysBeforeYear(_)
DaysBeforeYear(y) ==
    IF y <= 2024 THEN 0 ELSE DaysInYear(y - 1) + DaysBeforeYear(y - 1)

RECURSIVE DaysBeforeMonth(_, _)
DaysBeforeMonth(y, m) ==
    IF m <= 1 THEN 0 ELSE DaysInMonth(y, m - 1) + DaysBeforeMonth(y, m - 1)

\* The day number of y-m-d; a day past the end of the month runs on into the
\* next one, as SQLite normalises '2025-02-31' to '2025-03-03'.
DayNumber(y, m, d) == DaysBeforeYear(y) + DaysBeforeMonth(y, m) + (d - 1)

MinuteOf(y, m, d, hh, mm) == DayNumber(y, m, d) * MinutesPerDay + hh * 60 + mm

RECURSIVE YearFrom(_, _)
YearFrom(y, n) == IF n < DaysInYear(y) THEN y ELSE YearFrom(y + 1, n - DaysInYear(y))

RECURSIVE MonthFrom(_, _, _)
MonthFrom(y, m, n) ==
    IF n < DaysInMonth(y, m) THEN m ELSE MonthFrom(y, m + 1, n - DaysInMonth(y, m))

YearOf(t) == YearFrom(2024, t \div MinutesPerDay)

MonthOf(t) ==
    MonthFrom(YearOf(t), 1, (t \div MinutesPerDay) - DaysBeforeYear(YearOf(t)))

DayOf(t) ==
    (t \div MinutesPerDay) - DaysBeforeYear(YearOf(t))
        - DaysBeforeMonth(YearOf(t), MonthOf(t)) + 1

\* datetime('now', modifier) for the modifiers '-1 <unit>' the revenue
\* handler builds.  SQLite knows the units day, hour, minute, second, month
\* and year (with or without a final s); for any other text, 'week'
\* included, datetime() returns NULL.  (A second is below the resolution of
\* the model's clock; no request of the model asks for it.)
DatetimeNowMinus1(now, modifier) ==
    CASE modifier \in {"-1 day", "-1 days"} -> SqlDatetime(now - MinutesPerDay)
      [] modifier \in {"-1 hour", "-1 hours"} -> SqlDatetime(now - 60)
      [] modifier \in {"-1 minute", "-1 minutes"} -> SqlDatetime(now - 1)
      [] modifier \in {"-1 month", "-1 months"} ->
            IF MonthOf(now) = 1
            THEN SqlDatetime(MinuteOf(YearOf(now) - 1, 12, DayOf(now), 0,
                                      now % MinutesPerDay))
            ELSE SqlDatetime(MinuteOf(YearOf(now), MonthOf(now) - 1, DayOf(now),
                                      0, now % MinutesPerDay))
      [] modifier \in {"-1 year", "-1 years"} ->
            SqlDatetime(MinuteOf(YearOf(now) - 1, MonthOf(now), DayOf(now), 0,
                                 now % MinutesPerDay))
      [] OTHER -> SqlNull

\* strftime('%s', t): seconds since 1970-01-01; 2024-01-01 is 1704067200.
StrftimeSeconds(t) == 1704067200 + t * 60

\* strftime('%Y-%m', t): the text 'YYYY-MM', kept as its two fields; texts
\* of this shape sort as the pairs do.
StrftimeYearMonth(t) == <<YearOf(t), MonthOf(t)>>

(***************************************************************************)
(* Bounds of the model.                                                    *)
(***************************************************************************)
\* How many minutes the clock may advance during a run.
MaxTick == 1

\* How many invocations are in flight together in the concurrent runs.
MaxInFlight == 2

\* How many further opportunities, all near the caller and unexpired, a large
\* opportunities table holds besides the five rows that vary.
NumBulk == 49

(***************************************************************************)
(* Constants of the program.                                               *)
(***************************************************************************)
\* datetime('now', '-5 minutes')
FreshMinutes == 5

\* const { max_distance = 100 } = req.query
DefaultMaxDistance == 100

\* LIMIT 50
Limit == 50

\* JavaScript's null: the err of a query that succeeded.
NoError == "null"

(***************************************************************************)
(* The state.                                                              *)
(***************************************************************************)
VARIABLES
    schema,         \* which tables and columns the database file has
    trucks,         \* rows of table trucks
    opportunities,  \* rows of table opportunities
    shipments,      \* rows of table shipments
    now,            \* the clock, in minutes
    pc,             \* per invocation: "idle", "pending" (db.all called), "done"
    call,           \* per invocation: the route and the parameters it bound
    execAt,         \* per invocation: the clock when its query ran (0: it did not)
    sent            \* per invocation: the responses written, in order

vars == <<schema, trucks, opportunities, shipments, now, pc, call, execAt, sent>>

tables == <<schema, trucks, opportunities, shipments>>

(***************************************************************************)
(* Sorting, as ORDER BY does it.  Rows the key does not tell apart come    *)
(* out in an order SQL leaves to the engine, here by ascending or by       *)
(* descending rowid.                                                       *)
(***************************************************************************)
TieOrders == {"rowid ascending", "rowid descending"}

TieBefore(tie, a, b) == IF tie = "rowid ascending" THEN a.id < b.id ELSE a.id > b.id

\* ORDER BY last_updated DESC
TrucksBefore(a, b) == a.last_updated > b.last_updated

\* A variant: ORDER BY revenue ASC.
OpportunitiesBeforeAscending(a, b) == a.revenue < b.revenue

\* ORDER BY revenue DESC
OpportunitiesBefore(a, b) == a.revenue > b.revenue

Before(key, a, b) ==
    CASE key = "last_updated DESC" -> TrucksBefore(a, b)
      [] key = "revenue DESC" -> OpportunitiesBefore(a, b)

RECURSIVE OrderBy(_, _, _)
OrderBy(rows, key, tie) ==
    IF rows = {} THEN <<>>
    ELSE LET first == CHOOSE a \in rows : \A b \in rows \ {a} :
                          \/ Before(key, a, b)
                          \/ ~Before(key, b, a) /\ TieBefore(tie, a, b)
         IN  <<first>> \o OrderBy(rows \ {first}, key, tie)

Head50(s) == IF Len(s) <= Limit THEN s ELSE SubSeq(s, 1, Limit)

\* What db.all hands to its callback: the rows, or an error when the store
\* cannot run the statement (the file is locked, the disk fails).
Rows(rs) == [err |-> NoError, rows |-> rs]

Failure(msg) == [err |-> msg, rows |-> <<>>]

(***************************************************************************)
(* GET /api/gps/trucks                                                     *)
(***************************************************************************)
\* A variant: the bound of the window included (>= in place of >).
TrucksWhereInclusive(tbl, at) ==
    {t \in tbl : ~SqlLess(SqlDatetime(t.last_updated), SqlDatetime(at - FreshMinutes))}

TrucksWhere(tbl, at) ==
    {t \in tbl : SqlLess(SqlDatetime(at - FreshMinutes), SqlDatetime(t.last_updated))}

TrucksSelect(t) == [id |-> t.id, timestamp |-> StrftimeSeconds(t.last_updated)]

TrucksQuery(tbl, at, tie) ==
    LET ordered == OrderBy(TrucksWhere(tbl, at), "last_updated DESC", tie)
    IN  [i \in 1..Len(ordered) |-> TrucksSelect(ordered[i])]

(***************************************************************************)
(* GET /api/opportunities                                                  *)
(***************************************************************************)
\* 6371 * acos(cos(radians(lat)) * cos(radians(origin_lat)) *
\*             cos(radians(origin_lng) - radians(lng)) +
\*             sin(radians(lat)) * sin(radians(origin_lat)))
\* in centimetres, as IEEE double arithmetic gives it for the coordinates of
\* the model (a text that looks like a number is converted by radians(); a
\* NULL argument makes the whole expression NULL).  The formula does not
\* check the range of lat.
GreatCircleCm(lat, lng, origin_lat, origin_lng) ==
    IF lat.t = "null" \/ lng.t = "null" THEN SqlNull
    ELSE CASE <<lat.s, lng.s, origin_lat, origin_lng>> = <<"40", "-73", 40, -73>> ->
                  SqlNum(9)
           [] <<lat.s, lng.s, origin_lat, origin_lng>> = <<"40", "-73", 41, -74>> ->
                  SqlNum(13968863)
           [] <<lat.s, lng.s, origin_lat, origin_lng>> = <<"40", "-73", 10, 10>> ->
                  SqlNum(870154851)
           [] <<lat.s, lng.s, origin_lat, origin_lng>> = <<"100", "-73", 40, -73>> ->
                  SqlNum(667169560)
           [] <<lat.s, lng.s, origin_lat, origin_lng>> = <<"100", "-73", 41, -74>> ->
                  SqlNum(656035231)
           [] <<lat.s, lng.s, origin_lat, origin_lng>> = <<"100", "-73", 10, 10>> ->
                  SqlNum(904718270)

\* The bound value of the fourth parameter as a distance in centimetres: the
\* number 100 when the handler's default applies, else the text of the query
\* string as it is.
CmPerKm == 1000 * 100

MaxDistanceParam(max_distance) ==
    IF max_distance.t = "num" THEN SqlNum(max_distance.n * CmPerKm) ELSE max_distance

Distance(o, params) == GreatCircleCm(params[1], params[2], o.origin_lat, o.origin_lng)

OpportunitiesWhere(tbl, params, at) ==
    {o \in tbl : /\ SqlLess(Distance(o, params), MaxDistanceParam(params[4]))
                 /\ SqlLess(SqlDatetime(at), SqlDatetime(o.expiry))}

OpportunitiesSelect(o, params) ==
    [id |-> o.id, revenue |-> o.revenue, distance |-> Distance(o, params).n]

OpportunitiesQuery(tbl, params, at, tie) ==
    LET ordered == Head50(OrderBy(OpportunitiesWhere(tbl, params, at),
                                  "revenue DESC", tie))
    IN  [i \in 1..Len(ordered) |-> OpportunitiesSelect(ordered[i], params)]

(***************************************************************************)
(* GET /api/analytics/revenue                                              *)
(***************************************************************************)
RevenueWhere(tbl, params, at) ==
    {s \in tbl : SqlLess(DatetimeNowMinus1(at, params[1]), SqlDatetime(s.timestamp))}

\* A variant: strftime('%Y', timestamp), one bucket a year.
RevenueGroupLabelByYear(s) == <<YearOf(s.timestamp), 1>>

RevenueGroupLabel(s) == StrftimeYearMonth(s.timestamp)

RECURSIVE Sum(_, _)
Sum(rows, field) ==
    IF rows = {} THEN 0
    ELSE LET r == CHOOSE x \in rows : TRUE
         IN  r[field] + Sum(rows \ {r}, field)

RevenueGroup(rows, label) ==
    LET members == {s \in rows : RevenueGroupLabel(s) = label}
    IN  [timeframe |-> label, total |-> Sum(members, "revenue"),
         shipments |-> Cardinality(members)]

LabelBefore(a, b) == a[1] < b[1] \/ (a[1] = b[1] /\ a[2] < b[2])

RevenueBefore(a, b) == LabelBefore(a.timeframe, b.timeframe)

RECURSIVE RevenueOrder(_)
RevenueOrder(groups) ==
    IF groups = {} THEN <<>>
    ELSE LET first == CHOOSE a \in groups : \A b \in groups \ {a} : RevenueBefore(a, b)
         IN  <<first>> \o RevenueOrder(groups \ {first})

RevenueQuery(tbl, params, at) ==
    LET rows == RevenueWhere(tbl, params, at)
    IN  RevenueOrder({RevenueGroup(rows, l) : l \in {RevenueGroupLabel(s) : s \in rows}})

(***************************************************************************)
(* The callback of db.all, the same in the three handlers:                 *)
(*     if (err) return res.status(500).json({ error: err.message });       *)
(*     res.json(rows);                                                     *)
(***************************************************************************)
\* A variant: the error branch without its return, so that the rows are
\* written after the error.
RespondWithoutReturn(out) ==
    IF out.err # NoError
    THEN <<[status |-> 500, error |-> out.err], [status |-> 200, rows |-> out.rows]>>
    ELSE <<[status |-> 200, rows |-> out.rows]>>

Respond(out) ==
    IF out.err # NoError
    THEN <<[status |-> 500, error |-> out.err]>>
    ELSE <<[status |-> 200, rows |-> out.rows]>>

\* A variant: expiry enforced by deleting the expired rows while reading.
OpportunitiesPurgeExpired(tbl, at) == {o \in tbl : o.expiry > at}

\* A SELECT leaves the table it reads as it is.
OpportunitiesAfterSelect(tbl, at) == tbl

StoreFailures == {Failure("SQLITE_BUSY: database is locked")}

TrucksDbAll(tbl, at) ==
    {Rows(TrucksQuery(tbl, at, tie)) : tie \in TieOrders} \cup StoreFailures

\* The table the program creates (CREATE TABLE IF NOT EXISTS opportunities)
\* has no column origin_lat or origin_lng; the statement runs only against a
\* database file whose table already had them.
OpportunitiesDbAll(sch, tbl, params, at) ==
    IF sch = "bootstrap"
    THEN {Failure("SQLITE_ERROR: no such column: origin_lat")}
    ELSE {Rows(OpportunitiesQuery(tbl, params, at, tie)) : tie \in TieOrders}
            \cup StoreFailures

\* The program creates no table shipments.
RevenueDbAll(sch, tbl, params, at) ==
    IF sch = "bootstrap"
    THEN {Failure("SQLITE_ERROR: no such table: shipments")}
    ELSE {Rows(RevenueQuery(tbl, params, at))} \cup StoreFailures

(***************************************************************************)
(* The store contents and the requests of the model.                       *)
(***************************************************************************)
Now0 == MinuteOf(2025, 3, 2, 0, 10)

FarFuture == MinuteOf(2026, 1, 1, 0, 0)

TruckRows ==
    {[id |-> 1, last_updated |-> Now0 - 10],
     [id |-> 2, last_updated |-> Now0 - 5],
     [id |-> 3, last_updated |-> Now0 - 4],
     [id |-> 4, last_updated |-> Now0 - 1]}

OpportunityRows ==
    {[id |-> 1, origin_lat |-> 41, origin_lng |-> -74, revenue |-> 500,
      expiry |-> FarFuture],
     [id |-> 2, origin_lat |-> 40, origin_lng |-> -73, revenue |-> 500,
      expiry |-> FarFuture],
     [id |-> 3, origin_lat |-> 10, origin_lng |-> 10, revenue |-> 900,
      expiry |-> FarFuture],
     [id |-> 4, origin_lat |-> 40, origin_lng |-> -73, revenue |-> 900,
      expiry |-> Now0 - 60],
     [id |-> 5, origin_lat |-> 40, origin_lng |-> -73, revenue |-> 700,
      expiry |-> Now0 + 1]}

BulkRows ==
    {[id |-> 5 + i, origin_lat |-> 40, origin_lng |-> -73, revenue |-> 1000 + i,
      expiry |-> FarFuture] : i \in 1..NumBulk}

ShipmentRows ==
    {[id |-> 1, timestamp |-> MinuteOf(2025, 3, 2, 0, 5), revenue |-> 100],
     [id |-> 2, timestamp |-> MinuteOf(2025, 3, 1, 23, 0), revenue |-> 250],
     [id |-> 3, timestamp |-> MinuteOf(2025, 2, 25, 12, 0), revenue |-> 400],
     [id |-> 4, timestamp |-> MinuteOf(2024, 12, 15, 12, 0), revenue |-> 800],
     [id |-> 5, timestamp |-> MinuteOf(2024, 3, 1, 0, 0), revenue |-> 1600]}

TruckRequests == {[windowMinutes |-> w] : w \in {Undefined, "15"}}

OpportunityRequests ==
    {[lat |-> "40", lng |-> "-73", max_distance |-> Undefined],
     [lat |-> "40", lng |-> "-73", max_distance |-> "200"],
     [lat |-> Undefined, lng |-> "-73", max_distance |-> Undefined],
     [lat |-> "100", lng |-> "-73", max_distance |-> "200"]}

RevenueRequests ==
    {[period |-> p] :
        p \in {Undefined, "day", "week", "year", "hour"}}

NoCall == [route |-> "none"]

(***************************************************************************)
(* The initial states: a database file, no invocation yet.  Four families  *)
(* of files are explored, each varying one table with one invocation at a  *)
(* time, and one family with MaxInFlight invocations together.             *)
(***************************************************************************)
Idle(n) ==
    /\ now = Now0
    /\ pc = [r \in 1..n |-> "idle"]
    /\ call = [r \in 1..n |-> NoCall]
    /\ execAt = [r \in 1..n |-> 0]
    /\ sent = [r \in 1..n |-> <<>>]

\* The file the program creates itself: the tables of db.exec, still empty.
InitBootstrap ==
    /\ schema = "bootstrap"
    /\ trucks \in {{}, {r \in TruckRows : r.id \in {1, 4}}}
    /\ opportunities = {}
    /\ shipments = {}
    /\ Idle(1)

InitTrucks ==
    /\ schema = "extended"
    /\ trucks \in SUBSET TruckRows
    /\ opportunities = {}
    /\ shipments = {}
    /\ Idle(1)

InitOpportunities ==
    /\ schema = "extended"
    /\ trucks = {}
    /\ \E rows \in SUBSET OpportunityRows, bulk \in {{}, BulkRows} :
           opportunities = rows \cup bulk
    /\ shipments = {}
    /\ Idle(1)

InitShipments ==
    /\ schema = "extended"
    /\ trucks = {}
    /\ opportunities = {}
    /\ shipments \in SUBSET ShipmentRows
    /\ Idle(1)

InitConcurrent ==
    /\ schema = "extended"
    /\ trucks = {r \in TruckRows : r.id \in {1, 3}}
    /\ opportunities = {r \in OpportunityRows : r.id \in {1, 2, 5}}
    /\ shipments = {r \in ShipmentRows : r.id \in {1, 2, 3}}
    /\ Idle(MaxInFlight)

Init ==
    \/ InitBootstrap
    \/ InitTrucks
    \/ InitOpportunities
    \/ InitShipments
    \/ InitConcurrent

(***************************************************************************)
(* The handlers: each reads the query string, binds the parameters and     *)
(* calls db.all.                                                           *)
(***************************************************************************)
Issue(r, c) ==
    /\ pc[r] = "idle"
    /\ pc' = [pc EXCEPT ![r] = "pending"]
    /\ call' = [call EXCEPT ![r] = c]
    /\ UNCHANGED <<tables, now, execAt, sent>>

GetTrucks(r) ==
    \E q \in TruckRequests :
        Issue(r, [route |-> "trucks", query |-> q, params |-> <<>>])

OpportunitiesParams(q) ==
    <<BindValue(q.lat), BindValue(q.lng), BindValue(q.lat),
      IF q.max_distance = Undefined THEN SqlNum(DefaultMaxDistance)
      ELSE SqlText(q.max_distance)>>

GetOpportunities(r) ==
    \E q \in OpportunityRequests :
        Issue(r, [route |-> "opportunities", query |-> q,
                  params |-> OpportunitiesParams(q)])

RevenueParams(q) ==
    <<"-1 " \o (IF q.period = Undefined THEN "month" ELSE q.period)>>

GetRevenue(r) ==
    \E q \in RevenueRequests :
        Issue(r, [route |-> "revenue", query |-> q, params |-> RevenueParams(q)])

(***************************************************************************)
(* The database runs the statement and the callback answers.               *)
(***************************************************************************)
Answer(r, out) ==
    /\ pc' = [pc EXCEPT ![r] = "done"]
    /\ execAt' = [execAt EXCEPT ![r] = IF out.err = NoError THEN now ELSE 0]
    /\ sent' = [sent EXCEPT ![r] = sent[r] \o Respond(out)]
    /\ UNCHANGED <<schema, trucks, shipments, now, call>>

TrucksCallback(r) ==
    /\ pc[r] = "pending" /\ call[r].route = "trucks"
    /\ \E out \in TrucksDbAll(trucks, now) : Answer(r, out)
    /\ UNCHANGED opportunities

OpportunitiesCallback(r) ==
    /\ pc[r] = "pending" /\ call[r].route = "opportunities"
    /\ \E out \in OpportunitiesDbAll(schema, opportunities, call[r].params, now) :
           Answer(r, out)
    /\ opportunities' = OpportunitiesAfterSelect(opportunities, now)

RevenueCallback(r) ==
    /\ pc[r] = "pending" /\ call[r].route = "revenue"
    /\ \E out \in RevenueDbAll(schema, shipments, call[r].params, now) :
           Answer(r, out)
    /\ UNCHANGED opportunities

\* Time passes.
Tick ==
    /\ now < Now0 + MaxTick
    /\ now' = now + 1
    /\ UNCHANGED <<tables, pc, call, execAt, sent>>

Next ==
    \/ \E r \in DOMAIN pc : GetTrucks(r)
    \/ \E r \in DOMAIN pc : GetOpportunities(r)
    \/ \E r \in DOMAIN pc : GetRevenue(r)
    \/ \E r \in DOMAIN pc : TrucksCallback(r)
    \/ \E r \in DOMAIN pc : OpportunitiesCallback(r)
    \/ \E r \in DOMAIN pc : RevenueCallback(r)
    \/ Tick

Spec == Init /\ [][Next]_vars

(***************************************************************************)
(* Properties.  They are stated over what a caller sees (the request and   *)
(* the responses written) and over the tables, not over the queries' own   *)
(* definitions.                                                            *)
(***************************************************************************)
Invocations == DOMAIN pc

\* Invocation r of the route was answered with a result list.
Returned(r, route) ==
    /\ pc[r] = "done" /\ call[r].route = route
    /\ Len(sent[r]) = 1 /\ sent[r][1].status = 200

ResultOf(r) == sent[r][1].rows

\* The number a query-string text denotes.
NumberOf(text) ==
    CASE text = "40" -> 40 [] text = "-73" -> -73 [] text = "100" -> 100
      [] text = "200" -> 200 [] text = "15" -> 15

ValidCoordinates(q) ==
    /\ q.lat # Undefined /\ q.lng # Undefined
    /\ NumberOf(q.lat) >= -90 /\ NumberOf(q.lat) <= 90
    /\ NumberOf(q.lng) >= -180 /\ NumberOf(q.lng) <= 180

MaxDistanceKm(q) ==
    IF q.max_distance = Undefined THEN 100 ELSE NumberOf(q.max_distance)

OpportunityById(id) == CHOOSE o \in opportunities : o.id = id

\* The distance in centimetres from the caller's coordinate to o's origin.
DistanceFrom(q, o) ==
    GreatCircleCm(SqlText(q.lat), SqlText(q.lng), o.origin_lat, o.origin_lng).n

Eligible(q, o, at) ==
    /\ DistanceFrom(q, o) < MaxDistanceKm(q) * CmPerKm
    /\ o.expiry > at

\* C1: every opportunity findOpportunities returns for valid arguments is
\* unexpired (expiry > now) and nearer than maxDistanceKm to the caller.
C1_ReturnsOnlyEligible ==
    \A r \in Invocations :
        Returned(r, "opportunities") /\ ValidCoordinates(call[r].query) =>
            \A i \in 1..Len(ResultOf(r)) :
                Eligible(call[r].query, OpportunityById(ResultOf(r)[i].id), execAt[r])

\* C2 (as amended): the sequence findOpportunities returns is sorted
\* non-increasing by revenue; nothing more is fixed about rows of equal
\* revenue.
C2_RevenueDescending ==
    \A r \in Invocations :
        Returned(r, "opportunities") =>
            \A i, j \in 1..Len(ResultOf(r)) :
                i < j => ResultOf(r)[i].revenue >= ResultOf(r)[j].revenue

\* C2's case: a result with rows of different revenue and two of the same.
C2_Witness ==
    \E r \in Invocations :
        /\ Returned(r, "opportunities")
        /\ \E i, j, k \in 1..Len(ResultOf(r)) :
              /\ i < j /\ j < k
              /\ ResultOf(r)[i].revenue > ResultOf(r)[j].revenue
              /\ ResultOf(r)[j].revenue = ResultOf(r)[k].revenue

\* C2 as stated: sorted non-increasing by revenue, ties broken by ascending
\* distance and then by ascending id.
C2_TiesByDistanceThenId ==
    \A r \in Invocations :
        Returned(r, "opportunities") =>
            \A i, j \in 1..Len(ResultOf(r)) :
                i < j =>
                    LET a == ResultOf(r)[i]
                        b == ResultOf(r)[j]
                    IN  \/ a.revenue > b.revenue
                        \/ a.revenue = b.revenue /\ a.distance < b.distance
                        \/ a.revenue = b.revenue /\ a.distance = b.distance
                              /\ a.id < b.id

Min(a, b) == IF a < b THEN a ELSE b

\* C3: findOpportunities returns the first min(50, n) of the n eligible
\* opportunities in rank order: at most 50 rows, min(50, n) of them, each
\* eligible, and none left out that has more revenue than one returned.
C3_CapAfterRanking ==
    \A r \in Invocations :
        Returned(r, "opportunities") /\ ValidCoordinates(call[r].query) =>
            LET q == call[r].query
                eligible == {o \in opportunities : Eligible(q, o, execAt[r])}
                ids == {ResultOf(r)[i].id : i \in 1..Len(ResultOf(r))}
            IN  /\ Len(ResultOf(r)) = Min(50, Cardinality(eligible))
                /\ ids \subseteq {o.id : o \in eligible}
                /\ \A o \in eligible : o.id \notin ids =>
                       \A i \in 1..Len(ResultOf(r)) : ResultOf(r)[i].revenue >= o.revenue

TruckIds(r) == {ResultOf(r)[i].id : i \in 1..Len(ResultOf(r))}

NewestFirst(rows) ==
    \A i, j \in 1..Len(rows) : i < j => rows[i].timestamp >= rows[j].timestamp

\* C4 (as amended): whatever windowMinutes the caller passes,
\* listRecentVehiclePositions returns exactly the positions updated strictly
\* less than 5 minutes before now, sorted non-increasing by lastUpdated.
C4_FixedFiveMinuteWindow ==
    \A r \in Invocations :
        Returned(r, "trucks") =>
            /\ TruckIds(r) = {t.id : t \in {u \in trucks : u.last_updated > execAt[r] - 5}}
            /\ Len(ResultOf(r)) = Cardinality(TruckIds(r))
            /\ NewestFirst(ResultOf(r))

\* C4's case: a caller asked for 15 minutes, a position 10 minutes old was
\* left out and fresher ones were returned.
C4_Witness ==
    \E r \in Invocations :
        /\ Returned(r, "trucks")
        /\ call[r].query.windowMinutes = "15"
        /\ Len(ResultOf(r)) >= 2
        /\ \E t \in trucks : t.last_updated = execAt[r] - 10 /\ t.id \notin TruckIds(r)

WindowMinutes(q) ==
    IF q.windowMinutes = Undefined THEN 5 ELSE NumberOf(q.windowMinutes)

\* C4 as stated: the positions returned are exactly those updated strictly
\* less than windowMinutes (5 when absent) before now, newest first.
C4_WindowMinutesHonoured ==
    \A r \in Invocations :
        Returned(r, "trucks") =>
            /\ TruckIds(r) =
                  {t.id : t \in {u \in trucks :
                      u.last_updated > execAt[r] - WindowMinutes(call[r].query)}}
            /\ NewestFirst(ResultOf(r))

(***************************************************************************)
(* revenueByPeriod.                                                        *)
(***************************************************************************)
RecognizedPeriods == {"day", "week", "month", "year"}

PeriodOf(q) == IF q.period = Undefined THEN "month" ELSE q.period

\* now minus one period.
OnePeriodBefore(at, period) ==
    CASE period = "day" -> at - MinutesPerDay
      [] period = "week" -> at - 7 * MinutesPerDay
      [] period = "month" -> DatetimeNowMinus1(at, "-1 month").at
      [] period = "year" -> DatetimeNowMinus1(at, "-1 year").at

Window(at, period) == {s \in shipments : s.timestamp > OnePeriodBefore(at, period)}

RECURSIVE SumOver(_, _)
SumOver(rows, field) ==
    IF Len(rows) = 0 THEN 0 ELSE Head(rows)[field] + SumOver(Tail(rows), field)

\* C5: for every recognized period the buckets partition the window: the
\* shipments of the buckets add up to the number of records in the window and
\* their totals to the revenue of those records.
C5_BucketsPartitionWindow ==
    \A r \in Invocations :
        Returned(r, "revenue") /\ PeriodOf(call[r].query) \in RecognizedPeriods =>
            LET window == Window(execAt[r], PeriodOf(call[r].query))
            IN  /\ SumOver(ResultOf(r), "shipments") = Cardinality(window)
                /\ SumOver(ResultOf(r), "total") = Sum(window, "revenue")

\* C6: a revenueByPeriod call with an unrecognized period is rejected: no
\* result list is ever returned for it.
C6_UnknownPeriodRejected ==
    \A r \in Invocations :
        pc[r] = "done" /\ call[r].route = "revenue"
            /\ PeriodOf(call[r].query) \notin RecognizedPeriods =>
                \A i \in 1..Len(sent[r]) : sent[r][i].status # 200

\* C7: a findOpportunities call with lat or lng missing or out of range is
\* rejected: no opportunity list is returned for it.
C7_BadCoordinatesRejected ==
    \A r \in Invocations :
        pc[r] = "done" /\ call[r].route = "opportunities"
            /\ ~ValidCoordinates(call[r].query) =>
                \A i \in 1..Len(sent[r]) : sent[r][i].status # 200

\* C9 (as amended): whatever the period, a bucket is a calendar month: the
\* timeframes returned are the year-months of the shipments in the window,
\* one bucket each, in ascending order.
C9_BucketsAreMonths ==
    \A r \in Invocations :
        Returned(r, "revenue") =>
            /\ \A i, j \in 1..Len(ResultOf(r)) :
                  i < j => LabelBefore(ResultOf(r)[i].timeframe, ResultOf(r)[j].timeframe)
            /\ PeriodOf(call[r].query) \in {"day", "month", "year"} =>
                  {ResultOf(r)[i].timeframe : i \in 1..Len(ResultOf(r))} =
                      {<<YearOf(s.timestamp), MonthOf(s.timestamp)>> :
                          s \in Window(execAt[r], PeriodOf(call[r].query))}

\* C9's case: period=day with two shipments of different days in one
\* bucket, or period=year with two buckets of the same year.
C9_Witness ==
    \E r \in Invocations :
        /\ Returned(r, "revenue")
        /\ \/ /\ call[r].query.period = "day"
              /\ \E i \in 1..Len(ResultOf(r)) : ResultOf(r)[i].shipments = 2
              /\ \E s, u \in Window(execAt[r], "day") : DayOf(s.timestamp) # DayOf(u.timestamp)
           \/ /\ call[r].query.period = "year"
              /\ \E i, j \in 1..Len(ResultOf(r)) :
                    /\ i < j
                    /\ ResultOf(r)[i].timeframe[1] = ResultOf(r)[j].timeframe[1]

\* The bucket a shipment falls in when the label has the period's granularity.
Granule(t, period) ==
    CASE period = "day" -> <<YearOf(t), MonthOf(t), DayOf(t)>>
      [] period = "week" -> <<t \div (7 * MinutesPerDay)>>
      [] period = "month" -> <<YearOf(t), MonthOf(t)>>
      [] period = "year" -> <<YearOf(t)>>

\* C9 as stated: the buckets have the granularity of the period (as many
\* buckets as the window has days for day, years for year) and come in
\* ascending order.
C9_GranularityFollowsPeriod ==
    \A r \in Invocations :
        Returned(r, "revenue") /\ PeriodOf(call[r].query) \in {"day", "month", "year"} =>
            /\ \A i, j \in 1..Len(ResultOf(r)) :
                  i < j => LabelBefore(ResultOf(r)[i].timeframe, ResultOf(r)[j].timeframe)
            /\ Len(ResultOf(r)) =
                  Cardinality({Granule(s.timestamp, PeriodOf(call[r].query)) :
                                  s \in Window(execAt[r], PeriodOf(call[r].query))})

OrderedFor(route, rows) ==
    CASE route = "trucks" -> NewestFirst(rows)
      [] route = "opportunities" ->
            \A i, j \in 1..Len(rows) : i < j => rows[i].revenue >= rows[j].revenue
      [] route = "revenue" ->
            \A i, j \in 1..Len(rows) :
                i < j => LabelBefore(rows[i].timeframe, rows[j].timeframe)

AloneResults(c, at) ==
    CASE c.route = "trucks" ->
            {out.rows : out \in {o \in TrucksDbAll(trucks, at) : o.err = NoError}}
      [] c.route = "opportunities" ->
            {out.rows : out \in
                {o \in OpportunitiesDbAll(schema, opportunities, c.params, at) :
                    o.err = NoError}}
      [] c.route = "revenue" ->
            {out.rows : out \in
                {o \in RevenueDbAll(schema, shipments, c.params, at) : o.err = NoError}}

\* C10: no step of any interleaving changes a table, and what an invocation
\* returned is what it returns alone against the same tables at the same now.
C10_ReadOnlyAndIsolated ==
    /\ [][tables' = tables]_vars
    /\ [](\A r \in Invocations :
            Returned(r, call[r].route) => ResultOf(r) \in AloneResults(call[r], execAt[r]))

\* C10's case: several invocations of different operations were in flight
\* together and returned rows, at different times.
C10_Witness ==
    /\ Cardinality(Invocations) >= 2
    /\ \A r \in Invocations : Returned(r, call[r].route) /\ ResultOf(r) # <<>>
    /\ \E r, q \in Invocations :
          /\ call[r].route # call[q].route
          /\ execAt[r] # execAt[q]
          /\ call[r].route = "opportunities"

=============================================================================
